---- MODULE Spec2Model ----
(***************************************************************************)
(* State-machine model of contracts/dvpnFHE_Share.sol (DVPNShareFHE):      *)
(* provider registry, pause switch, cooldowns, the batch ledger with its   *)
(* encrypted accumulator, and the decryption request / callback handshake. *)
(* Every external function is one action.  A call that reverts leaves no   *)
(* trace on chain: storage, engine and log are unchanged.  The revert      *)
(* reason of a call is the value of the function's ...Revert operator,     *)
(* which evaluates the function's checks in the order of the code.         *)
(***************************************************************************)
EXTENDS Integers, Sequences, FiniteSets, TLC

\* ------------------------------------------------------------ bounds
\* uint256 is modelled with UintBits bits, euint32 with EuintBits bits.
UintBits == 16
EuintBits == 5
\* Number of decryption requests the engine issues ids for.
MaxRequests == 2
\* Number of contributions folded into one batch.
MaxContributions == 2
\* Number of block-time advances.
MaxTicks == 2
\* Number of DecryptionCompleted events logged per request id.
MaxCompletions == 2

\* ------------------------------------------------------------ constants
DefaultCooldownSeconds == 60

RECURSIVE Pow2(_)
Pow2(n) == IF n = 0 THEN 1 ELSE 2 * Pow2(n - 1)

UintMax == Pow2(UintBits) - 1
EuintModulus == Pow2(EuintBits)
EuintMax == EuintModulus - 1

\* ------------------------------------------------------------ actors
Owner == "owner"
ProviderA == "A"
ProviderB == "B"
Gateway == "gateway"
Actors == {Owner, ProviderA, ProviderB}
Callers == Actors \cup {Gateway}
ZeroAddress == "0x0"
ThisAddress == "this"

BatchIds == {0, 7}
RequestIds == 0..MaxRequests

\* block.timestamp of the deployment block
StartTime == 100

\* ------------------------------------------------------------ engine (FHE library)
\* A ciphertext handle is the list of the leaves it was computed from, in
\* order; the uninitialised euint32 (bytes32(0)) is the empty list.
NullHandle == << >>
TrivialLeaf(v) == [src |-> "trivial", pt |-> v]
InputLeaf(v) == [src |-> "input", pt |-> v]

FHE_asEuint32(v) == << TrivialLeaf(v % EuintModulus) >>
FHE_add(a, b) == a \o b
FHE_toBytes32(h) == h

RECURSIVE SumLeaves(_)
SumLeaves(h) == IF h = << >> THEN 0 ELSE h[1].pt + SumLeaves(Tail(h))

\* What the decryption service reveals for a handle: euint32 arithmetic wraps.
Decrypt(h) == SumLeaves(h) % EuintModulus

\* abi.encode of one uint256 / abi.decode(bytes, (uint256))
abi_encode(v) == << v >>
\* Variant of abi_decode returning the number of words instead of the word.
abi_decode_Length(bytes) == Len(bytes)
abi_decode(bytes) == bytes[1]

KmsProof(requestId, cleartexts) ==
    [signer |-> "kms", requestId |-> requestId, cleartexts |-> cleartexts]
ForgedProof == [signer |-> "forged", requestId |-> 0, cleartexts |-> << >>]

FHE_checkSignatures(requestId, cleartexts, proof) ==
    /\ proof.signer = "kms"
    /\ proof.requestId = requestId
    /\ proof.cleartexts = cleartexts

\* ------------------------------------------------------------ state
VARIABLES
    isProvider,                 \* mapping(address => bool)
    batches,                    \* mapping(uint256 => Batch)
    decryptionContexts,         \* mapping(uint256 => DecryptionContext)
    lastSubmissionTime,         \* mapping(address => uint256)
    lastDecryptionRequestTime,  \* mapping(address => uint256)
    owner,
    paused,
    cooldownSeconds,
    now,                        \* block.timestamp
    ticks,                      \* number of block-time advances so far
    engineRequests,             \* engine side: handles registered per request id
    completed,                  \* log: the DecryptionCompleted events per request id
    result                      \* the latest successful call and the event it emitted

\* The web frontend (App.tsx): the key-value store its clients share and
\* each client's addNode call in flight.
VARIABLES
    kvStore,                    \* the store behind setData/getData, per key
    pc,                         \* per client: the await its addNode call is at
    nodeId,                     \* per client: const nodeId of the call
    keys,                       \* per client: let keys of the call
    nodes,                      \* per client: the React state set by loadNodes
    transactionStatus,          \* per client: status shown for the latest call
    issued,                     \* per client: addNode calls started so far
    outcomes                    \* log: how each call ended, per node id

storage == << isProvider, batches, decryptionContexts, lastSubmissionTime,
              lastDecryptionRequestTime, owner, paused, cooldownSeconds >>
contract == << storage, now, ticks, engineRequests, completed, result >>
frontend == << kvStore, pc, nodeId, keys, nodes, transactionStatus, issued,
              outcomes >>
vars == << isProvider, batches, decryptionContexts, lastSubmissionTime,
           lastDecryptionRequestTime, owner, paused, cooldownSeconds,
           now, ticks, engineRequests, completed, result, frontend >>

NoError == "ok"
NoEvent == [name |-> "none", key |-> 0, batchId |-> 0, data |-> << >>]
Event(name, key, batchId, data) ==
    [name |-> name, key |-> key, batchId |-> batchId, data |-> data]

NoCall == [op |-> "none", sender |-> ZeroAddress, id |-> 0, arg |-> << >>,
           event |-> NoEvent]
Call(op, sender, id, arg, event) ==
    [op |-> op, sender |-> sender, id |-> id, arg |-> arg, event |-> event]

\* Variant of Reverted for a call that wrote the block time into the cooldown
\* records before failing, the write surviving the failure.
Reverted_KeepsTimestamps(err) ==
    /\ lastSubmissionTime' = [a \in Actors |-> now]
    /\ lastDecryptionRequestTime' = [a \in Actors |-> now]
    /\ UNCHANGED << frontend, isProvider, batches, decryptionContexts, owner, paused,
                    cooldownSeconds, now, ticks, engineRequests, completed, result >>

\* A reverted call: every effect of the transaction is rolled back.
Reverted(err) == UNCHANGED vars

EmptyBatch == [exists |-> FALSE, closed |-> FALSE, totalEncryptedBandwidth |-> NullHandle]
ZeroHash == [cts |-> << >>, self |-> ZeroAddress]
EmptyContext == [batchId |-> 0, stateHash |-> ZeroHash, processed |-> FALSE]

\* Variant of hashCiphertexts that hashes only the number of handles.
hashCiphertexts_LengthOnly(cts) ==
    [cts |-> [i \in 1..Len(cts) |-> NullHandle], self |-> ThisAddress]

\* keccak256(abi.encode(ctsBytes, address(this))): collision free, never zero
hashCiphertexts(cts) ==
    [cts |-> [i \in 1..Len(cts) |-> FHE_toBytes32(cts[i])], self |-> ThisAddress]

batchExists(batchId) == batches[batchId].exists

\* ------------------------------------------------------------ frontend store
\* Browsers running the app against the same deployment.
Clients == {"clientA", "clientB"}
\* addNode calls one client issues
MaxAddNode == 2
\* `${Date.now()}-${Math.random()...}`: the n-th id drawn by client c; two
\* draws are taken to differ.
NewNodeId(c, n) == << c, n >>
NodeIds == {NewNodeId(c, n) : c \in Clients, n \in 1..MaxAddNode}
NoNodeId == << "none", 0 >>

\* A key that was never set reads as empty bytes.
EmptyBytes == << >>
\* ethers.toUtf8Bytes(JSON.stringify(keys)): the brackets, then the ids
JSON_stringify(list) == << "[" >> \o list \o << "]" >>
\* JSON.parse(ethers.toUtf8String(bytes)) of a stored list
JSON_parse(bytes) == SubSeq(bytes, 2, Len(bytes) - 1)
\* The read of "node_keys" in addNode and loadNodes: the empty list when the
\* bytes are empty, the parsed list otherwise.
ReadKeys(keysBytes) ==
    IF Len(keysBytes) > 0 THEN JSON_parse(keysBytes) ELSE << >>
\* The ids a list holds.
Ids(list) == {list[i] : i \in 1..Len(list)}

Init ==
    /\ kvStore = [node_keys |-> EmptyBytes, node |-> [id \in NodeIds |-> EmptyBytes]]
    /\ pc = [c \in Clients |-> "idle"]
    /\ nodeId = [c \in Clients |-> NoNodeId]
    /\ keys = [c \in Clients |-> << >>]
    /\ nodes = [c \in Clients |-> << >>]
    /\ transactionStatus = [c \in Clients |-> "none"]
    /\ issued = [c \in Clients |-> 0]
    /\ outcomes = [id \in NodeIds |-> "none"]
    /\ isProvider = [a \in Actors |-> FALSE]
    /\ batches = [b \in BatchIds |-> EmptyBatch]
    /\ decryptionContexts = [r \in RequestIds |-> EmptyContext]
    /\ lastSubmissionTime = [a \in Actors |-> 0]
    /\ lastDecryptionRequestTime = [a \in Actors |-> 0]
    /\ owner = Owner
    /\ paused = FALSE
    /\ cooldownSeconds = DefaultCooldownSeconds
    /\ now = StartTime
    /\ ticks = 0
    /\ engineRequests = << >>
    /\ completed = [r \in RequestIds |-> << >>]
    /\ result = NoCall

\* ------------------------------------------------------------ modifiers
\* Variant of onlyOwner that also lets registered providers through.
onlyOwner_OrProvider(sender) ==
    IF sender # owner /\ ~isProvider[sender] THEN "NotOwner" ELSE NoError

onlyOwner(sender) == IF sender # owner THEN "NotOwner" ELSE NoError
\* Variant of onlyProvider that also lets the owner through.
onlyProvider_OrOwner(sender) ==
    IF ~isProvider[sender] /\ sender # owner THEN "NotProvider" ELSE NoError

onlyProvider(sender) == IF ~isProvider[sender] THEN "NotProvider" ELSE NoError
\* Variant of whenNotPaused that ignores the pause flag.
whenNotPaused_Ignored == NoError

whenNotPaused == IF paused THEN "Paused" ELSE NoError

\* first failing check of a list of checks, in order
RECURSIVE FirstError(_)
FirstError(checks) ==
    IF checks = << >> THEN NoError
    ELSE IF checks[1] # NoError THEN checks[1]
    ELSE FirstError(Tail(checks))

\* Variant of cooldownCheck that also rejects the call made exactly
\* cooldownSeconds after the last one.
cooldownCheck_OffByOne(last) ==
    IF last + cooldownSeconds > UintMax THEN "Panic"
    ELSE IF now <= last + cooldownSeconds THEN "CooldownActive"
    ELSE NoError

\* block.timestamp < last + cooldownSeconds, in checked uint256 arithmetic
cooldownCheck(last) ==
    IF last + cooldownSeconds > UintMax THEN "Panic"
    ELSE IF now < last + cooldownSeconds THEN "CooldownActive"
    ELSE NoError

\* ------------------------------------------------------------ owner operations
addProviderRevert(sender) == onlyOwner(sender)

addProvider(sender, provider) ==
    LET err == addProviderRevert(sender) IN
    IF err # NoError THEN Reverted(err)
    ELSE /\ isProvider' = [isProvider EXCEPT ![provider] = TRUE]
         /\ result' = Call("addProvider", sender, 0, << >>,
                           Event("ProviderAdded", 0, 0, provider))
         /\ UNCHANGED << frontend, batches, decryptionContexts, lastSubmissionTime,
                         lastDecryptionRequestTime, owner, paused, cooldownSeconds,
                         now, ticks, engineRequests, completed >>

removeProviderRevert(sender) == onlyOwner(sender)

removeProvider(sender, provider) ==
    LET err == removeProviderRevert(sender) IN
    IF err # NoError THEN Reverted(err)
    ELSE /\ isProvider' = [isProvider EXCEPT ![provider] = FALSE]
         /\ result' = Call("removeProvider", sender, 0, << >>,
                           Event("ProviderRemoved", 0, 0, provider))
         /\ UNCHANGED << frontend, batches, decryptionContexts, lastSubmissionTime,
                         lastDecryptionRequestTime, owner, paused, cooldownSeconds,
                         now, ticks, engineRequests, completed >>

\* Variant of pauseRevert without the whenNotPaused modifier of line 83.
pauseRevert_NoPausedCheck(sender) == onlyOwner(sender)

pauseRevert(sender) == FirstError(<< onlyOwner(sender), whenNotPaused >>)

pause(sender) ==
    LET err == pauseRevert(sender) IN
    IF err # NoError THEN Reverted(err)
    ELSE /\ paused' = TRUE
         /\ result' = Call("pause", sender, 0, << >>,
                           Event("Paused", 0, 0, sender))
         /\ UNCHANGED << frontend, isProvider, batches, decryptionContexts,
                         lastSubmissionTime, lastDecryptionRequestTime, owner, cooldownSeconds,
                         now, ticks, engineRequests, completed >>

unpauseRevert(sender) == onlyOwner(sender)

unpause(sender) ==
    LET err == unpauseRevert(sender) IN
    IF err # NoError THEN Reverted(err)
    ELSE /\ paused' = FALSE
         /\ result' = Call("unpause", sender, 0, << >>,
                           Event("Unpaused", 0, 0, sender))
         /\ UNCHANGED << frontend, isProvider, batches, decryptionContexts,
                         lastSubmissionTime, lastDecryptionRequestTime, owner, cooldownSeconds,
                         now, ticks, engineRequests, completed >>

\* Variant of setCooldownSecondsRevert without the zero check of line 94.
setCooldownSecondsRevert_NoZeroCheck(sender, newCooldownSeconds) ==
    onlyOwner(sender)

setCooldownSecondsRevert(sender, newCooldownSeconds) ==
    FirstError(<< onlyOwner(sender),
                  IF newCooldownSeconds = 0 THEN "InvalidParameter" ELSE NoError >>)

setCooldownSeconds(sender, newCooldownSeconds) ==
    LET err == setCooldownSecondsRevert(sender, newCooldownSeconds) IN
    IF err # NoError
    THEN Reverted(err)
    ELSE /\ cooldownSeconds' = newCooldownSeconds
         /\ result' = Call("setCooldownSeconds", sender, 0, << newCooldownSeconds >>,
                           Event("CooldownSecondsChanged", 0, 0,
                                 << cooldownSeconds, newCooldownSeconds >>))
         /\ UNCHANGED << frontend, isProvider, batches, decryptionContexts,
                         lastSubmissionTime, lastDecryptionRequestTime, owner, paused,
                         now, ticks, engineRequests, completed >>

\* ------------------------------------------------------------ batch ledger
\* Variants of openBatchRevert with the uniqueness check of line 101 changed.
\* Without the check: an existing id is opened again.
openBatchRevert_NoExistsCheck(sender, batchId) ==
    FirstError(<< onlyOwner(sender), whenNotPaused >>)

\* Rejecting an existing id with the batch error instead.
openBatchRevert_BatchError(sender, batchId) ==
    FirstError(<< onlyOwner(sender), whenNotPaused,
                  IF batches[batchId].exists
                  THEN "BatchClosedOrDoesNotExist" ELSE NoError >>)

openBatchRevert(sender, batchId) ==
    FirstError(<< onlyOwner(sender), whenNotPaused,
                  IF batches[batchId].exists THEN "InvalidParameter" ELSE NoError >>)

openBatch(sender, batchId) ==
    LET err == openBatchRevert(sender, batchId) IN
    IF err # NoError THEN Reverted(err)
    ELSE /\ batches' = [batches EXCEPT ![batchId] =
                           [exists |-> TRUE, closed |-> FALSE,
                            totalEncryptedBandwidth |-> FHE_asEuint32(0)]]
         /\ result' = Call("openBatch", sender, batchId, << >>,
                           Event("BatchOpened", 0, batchId, << >>))
         /\ UNCHANGED << frontend, isProvider, decryptionContexts, lastSubmissionTime,
                         lastDecryptionRequestTime, owner, paused, cooldownSeconds,
                         now, ticks, engineRequests, completed >>

\* Variant of closeBatchRevert without the existence check of line 107.
closeBatchRevert_NoExistsCheck(sender, batchId) ==
    FirstError(<< onlyOwner(sender), whenNotPaused,
                  IF batches[batchId].closed THEN "BatchClosedOrDoesNotExist" ELSE NoError >>)

\* Variant of closeBatchRevert without the closed check of line 108.
closeBatchRevert_NoClosedCheck(sender, batchId) ==
    FirstError(<< onlyOwner(sender), whenNotPaused,
                  IF ~batchExists(batchId) THEN "BatchClosedOrDoesNotExist" ELSE NoError >>)

closeBatchRevert(sender, batchId) ==
    FirstError(<< onlyOwner(sender), whenNotPaused,
                  IF ~batchExists(batchId) THEN "BatchClosedOrDoesNotExist" ELSE NoError,
                  IF batches[batchId].closed THEN "BatchClosedOrDoesNotExist" ELSE NoError >>)

closeBatch(sender, batchId) ==
    LET err == closeBatchRevert(sender, batchId) IN
    IF err # NoError THEN Reverted(err)
    ELSE /\ batches' = [batches EXCEPT ![batchId].closed = TRUE]
         /\ result' = Call("closeBatch", sender, batchId, << >>,
                           Event("BatchClosed", 0, batchId,
                                 FHE_toBytes32(batches[batchId].totalEncryptedBandwidth)))
         /\ UNCHANGED << frontend, isProvider, decryptionContexts, lastSubmissionTime,
                         lastDecryptionRequestTime, owner, paused, cooldownSeconds,
                         now, ticks, engineRequests, completed >>

\* Variant of contributeBandwidthRevert checking only that the batch exists.
contributeBandwidthRevert_NoClosedCheck(sender, batchId) ==
    FirstError(<< onlyProvider(sender), whenNotPaused,
                  cooldownCheck(lastSubmissionTime[sender]),
                  IF ~batchExists(batchId)
                  THEN "BatchClosedOrDoesNotExist" ELSE NoError >>)

\* Variant of contributeBandwidthRevert checking the batch before the cooldown.
contributeBandwidthRevert_BatchFirst(sender, batchId) ==
    FirstError(<< onlyProvider(sender), whenNotPaused,
                  IF ~batchExists(batchId) \/ batches[batchId].closed
                  THEN "BatchClosedOrDoesNotExist" ELSE NoError,
                  cooldownCheck(lastSubmissionTime[sender]) >>)

\* Variant of contributeBandwidthRevert with one cooldown record per actor
\* for both kinds of action.
contributeBandwidthRevert_SharedRecord(sender, batchId) ==
    FirstError(<< onlyProvider(sender), whenNotPaused,
                  cooldownCheck(IF lastSubmissionTime[sender]
                                      > lastDecryptionRequestTime[sender]
                                THEN lastSubmissionTime[sender]
                                ELSE lastDecryptionRequestTime[sender]),
                  IF ~batchExists(batchId) \/ batches[batchId].closed
                  THEN "BatchClosedOrDoesNotExist" ELSE NoError >>)

contributeBandwidthRevert(sender, batchId) ==
    FirstError(<< onlyProvider(sender), whenNotPaused,
                  cooldownCheck(lastSubmissionTime[sender]),
                  IF ~batchExists(batchId) \/ batches[batchId].closed
                  THEN "BatchClosedOrDoesNotExist" ELSE NoError >>)

contributeBandwidth(sender, batchId, encryptedBandwidth) ==
    LET err == contributeBandwidthRevert(sender, batchId) IN
    IF err # NoError
    THEN Reverted(err)
    ELSE /\ lastSubmissionTime' = [lastSubmissionTime EXCEPT ![sender] = now]
         /\ batches' = [batches EXCEPT ![batchId].totalEncryptedBandwidth =
                           FHE_add(batches[batchId].totalEncryptedBandwidth,
                                   encryptedBandwidth)]
         /\ result' = Call("contributeBandwidth", sender, batchId, << >>,
                           Event("BandwidthContributed", sender, batchId,
                                 FHE_toBytes32(encryptedBandwidth)))
         /\ UNCHANGED << frontend, isProvider, decryptionContexts,
                         lastDecryptionRequestTime, owner, paused, cooldownSeconds,
                         now, ticks, engineRequests, completed >>

\* ------------------------------------------------------------ decryption oracle
\* Variant of FHE_requestDecryption handing out the same id every time.
FHE_requestDecryption_SameId(cts) == 0

\* FHE.requestDecryption: the engine registers the handles under its next id.
FHE_requestDecryption(cts) == Len(engineRequests)

\* Variant of requestBatchDecryptionRevert checking only that the batch exists.
requestBatchDecryptionRevert_NoClosedCheck(sender, batchId) ==
    FirstError(<< onlyOwner(sender), whenNotPaused,
                  cooldownCheck(lastDecryptionRequestTime[sender]),
                  IF ~batchExists(batchId)
                  THEN "BatchClosedOrDoesNotExist" ELSE NoError >>)

\* Variant of requestBatchDecryptionRevert refusing a batch that already has
\* a stored request.
requestBatchDecryptionRevert_OncePerBatch(sender, batchId) ==
    FirstError(<< onlyOwner(sender), whenNotPaused,
                  cooldownCheck(lastDecryptionRequestTime[sender]),
                  IF ~batchExists(batchId) \/ ~batches[batchId].closed
                  THEN "BatchClosedOrDoesNotExist" ELSE NoError,
                  IF \E r \in RequestIds :
                         /\ decryptionContexts[r].stateHash # ZeroHash
                         /\ decryptionContexts[r].batchId = batchId
                  THEN "InvalidParameter" ELSE NoError >>)

requestBatchDecryptionRevert(sender, batchId) ==
    FirstError(<< onlyOwner(sender), whenNotPaused,
                  cooldownCheck(lastDecryptionRequestTime[sender]),
                  IF ~batchExists(batchId) \/ ~batches[batchId].closed
                  THEN "BatchClosedOrDoesNotExist" ELSE NoError >>)

requestBatchDecryption(sender, batchId) ==
    LET err == requestBatchDecryptionRevert(sender, batchId) IN
    IF err # NoError
    THEN Reverted(err)
    ELSE LET cts == << batches[batchId].totalEncryptedBandwidth >>
             stateHash == hashCiphertexts(cts)
             requestId == FHE_requestDecryption(cts)
         IN  /\ lastDecryptionRequestTime' =
                    [lastDecryptionRequestTime EXCEPT ![sender] = now]
             /\ engineRequests' = Append(engineRequests, cts)
             /\ decryptionContexts' = [decryptionContexts EXCEPT ![requestId] =
                    [batchId |-> batchId, stateHash |-> stateHash, processed |-> FALSE]]
             /\ result' = Call("requestBatchDecryption", sender, batchId, << >>,
                               Event("DecryptionRequested", requestId, batchId, stateHash))
             /\ UNCHANGED << frontend, isProvider, batches, lastSubmissionTime, owner, paused,
                             cooldownSeconds, now, ticks, completed >>

\* Variants of myCallbackRevert with one check of the code changed.
\* With the whenNotPaused modifier the other functions carry.
myCallbackRevert_WhenNotPaused(sender, requestId, cleartexts, proof) ==
    LET currentCts ==
            << batches[decryptionContexts[requestId].batchId].totalEncryptedBandwidth >>
        currentStateHash == hashCiphertexts(currentCts)
    IN  FirstError(<<
            whenNotPaused,
            IF decryptionContexts[requestId].processed THEN "ReplayAttempt" ELSE NoError,
            IF currentStateHash # decryptionContexts[requestId].stateHash
            THEN "StateMismatch" ELSE NoError,
            IF ~FHE_checkSignatures(requestId, cleartexts, proof)
            THEN "DecryptionFailed" ELSE NoError >>)

\* Without the replay check of line 139.
myCallbackRevert_NoReplayCheck(sender, requestId, cleartexts, proof) ==
    LET currentCts ==
            << batches[decryptionContexts[requestId].batchId].totalEncryptedBandwidth >>
        currentStateHash == hashCiphertexts(currentCts)
    IN  FirstError(<<
            IF currentStateHash # decryptionContexts[requestId].stateHash
            THEN "StateMismatch" ELSE NoError,
            IF ~FHE_checkSignatures(requestId, cleartexts, proof)
            THEN "DecryptionFailed" ELSE NoError >>)

\* Without the proof check of line 151.
myCallbackRevert_NoProofCheck(sender, requestId, cleartexts, proof) ==
    LET currentCts ==
            << batches[decryptionContexts[requestId].batchId].totalEncryptedBandwidth >>
        currentStateHash == hashCiphertexts(currentCts)
    IN  FirstError(<<
            IF decryptionContexts[requestId].processed THEN "ReplayAttempt" ELSE NoError,
            IF currentStateHash # decryptionContexts[requestId].stateHash
            THEN "StateMismatch" ELSE NoError >>)

\* Recomputing the hash without address(this), unlike the request did.
myCallbackRevert_HashWithoutSelf(sender, requestId, cleartexts, proof) ==
    LET currentCts ==
            << batches[decryptionContexts[requestId].batchId].totalEncryptedBandwidth >>
        currentStateHash == [hashCiphertexts(currentCts) EXCEPT !.self = ZeroAddress]
    IN  FirstError(<<
            IF decryptionContexts[requestId].processed THEN "ReplayAttempt" ELSE NoError,
            IF currentStateHash # decryptionContexts[requestId].stateHash
            THEN "StateMismatch" ELSE NoError,
            IF ~FHE_checkSignatures(requestId, cleartexts, proof)
            THEN "DecryptionFailed" ELSE NoError >>)

myCallbackRevert(sender, requestId, cleartexts, proof) ==
    LET currentCts ==
            << batches[decryptionContexts[requestId].batchId].totalEncryptedBandwidth >>
        currentStateHash == hashCiphertexts(currentCts)
    IN  FirstError(<<
            IF decryptionContexts[requestId].processed THEN "ReplayAttempt" ELSE NoError,
            IF currentStateHash # decryptionContexts[requestId].stateHash
            THEN "StateMismatch" ELSE NoError,
            IF ~FHE_checkSignatures(requestId, cleartexts, proof)
            THEN "DecryptionFailed" ELSE NoError >>)

\* Variant of myCallback that marks every request of the same batch processed.
myCallback_MarksBatch(sender, requestId, cleartexts, proof) ==
    LET err == myCallbackRevert(sender, requestId, cleartexts, proof) IN
    IF err # NoError
    THEN Reverted(err)
    ELSE LET totalBandwidth == abi_decode(cleartexts)
             event == Event("DecryptionCompleted", requestId,
                            decryptionContexts[requestId].batchId, totalBandwidth)
         IN
         /\ decryptionContexts' =
                [r \in RequestIds |->
                    IF decryptionContexts[r].batchId = decryptionContexts[requestId].batchId
                    THEN [decryptionContexts[r] EXCEPT !.processed = TRUE]
                    ELSE decryptionContexts[r]]
         /\ completed' = [completed EXCEPT ![requestId] = Append(@, event)]
         /\ result' = Call("myCallback", sender, requestId, << cleartexts, proof >>, event)
         /\ UNCHANGED << frontend, isProvider, batches, lastSubmissionTime,
                         lastDecryptionRequestTime, owner, paused, cooldownSeconds,
                         now, ticks, engineRequests >>

myCallback(sender, requestId, cleartexts, proof) ==
    LET err == myCallbackRevert(sender, requestId, cleartexts, proof) IN
    IF err # NoError
    THEN Reverted(err)
    ELSE LET totalBandwidth == abi_decode(cleartexts)
             event == Event("DecryptionCompleted", requestId,
                            decryptionContexts[requestId].batchId, totalBandwidth)
         IN
         /\ decryptionContexts' = [decryptionContexts EXCEPT ![requestId].processed = TRUE]
         /\ completed' = [completed EXCEPT ![requestId] = Append(@, event)]
         /\ result' = Call("myCallback", sender, requestId, << cleartexts, proof >>, event)
         /\ UNCHANGED << frontend, isProvider, batches, lastSubmissionTime,
                         lastDecryptionRequestTime, owner, paused, cooldownSeconds,
                         now, ticks, engineRequests >>

\* ------------------------------------------------------------ environment
\* The chain produces a later block.
Tick(d) ==
    /\ ticks < MaxTicks
    /\ now + d <= UintMax
    /\ now' = now + d
    /\ ticks' = ticks + 1
    /\ result' = NoCall
    /\ UNCHANGED << frontend, storage, engineRequests, completed >>

\* ------------------------------------------------------------ inputs
\* externally encrypted inputs with the given plaintexts
CiphertextsOf(plain) == {<< InputLeaf(v) >> : v \in plain}

\* What the decryption service answers for a registered request: the
\* decryption of exactly the handles registered under that id, signed.
IssuedRequestIds == {r \in RequestIds : r < Len(engineRequests)}
AuthenticCleartexts(requestId) ==
    abi_encode(Decrypt(engineRequests[requestId + 1][1]))
AuthenticPayload(requestId) ==
    << AuthenticCleartexts(requestId),
       KmsProof(requestId, AuthenticCleartexts(requestId)) >>
\* A cleartext the service did not sign.
AlteredCleartexts(requestId) ==
    abi_encode((abi_decode(AuthenticCleartexts(requestId)) + 1) % EuintModulus)
\* Callback payloads anyone can submit: the service's answers, an answer
\* with its cleartext altered, and a payload with a made-up proof.
Payloads ==
    {AuthenticPayload(r) : r \in IssuedRequestIds}
    \cup {<< AlteredCleartexts(r), AuthenticPayload(r)[2] >> : r \in IssuedRequestIds}
    \cup {<< abi_encode(1), ForgedProof >>}

\* One call of any external function, or a new block, with the senders and
\* arguments drawn from the sets of I.
Calls(I) ==
    \/ \E s \in I.admins, p \in I.providers : addProvider(s, p)
    \/ \E s \in I.admins, p \in I.providers : removeProvider(s, p)
    \/ \E s \in I.admins : pause(s)
    \/ \E s \in I.admins : unpause(s)
    \/ \E s \in I.admins, n \in I.cooldowns : setCooldownSeconds(s, n)
    \/ \E s \in I.admins, b \in I.batchIds : openBatch(s, b)
    \/ \E s \in I.admins, b \in I.batchIds : closeBatch(s, b)
    \/ \E s \in I.contributors, b \in I.batchIds, ct \in CiphertextsOf(I.plain) :
          /\ Len(batches[b].totalEncryptedBandwidth) <= MaxContributions
          /\ contributeBandwidth(s, b, ct)
    \/ \E s \in I.admins, b \in I.batchIds :
          /\ Len(engineRequests) < MaxRequests
          /\ requestBatchDecryption(s, b)
    \/ \E s \in I.callers, r \in RequestIds, cp \in Payloads :
          /\ Len(completed[r]) < MaxCompletions
          /\ myCallback(s, r, cp[1], cp[2])
    \/ \E d \in I.steps : Tick(d)

\* The handshake: two batches, requests on both, callbacks from the
\* gateway and from a stranger; blocks DefaultCooldownSeconds apart and
\* the cooldown window kept at its default.
HandshakeInputs ==
    [admins |-> {Owner}, providers |-> {ProviderA},
     cooldowns |-> {0, DefaultCooldownSeconds}, batchIds |-> BatchIds,
     contributors |-> {ProviderA}, plain |-> {10},
     callers |-> {Gateway, ProviderB}, steps |-> {DefaultCooldownSeconds}]
Next == Calls(HandshakeInputs)
Spec == Init /\ [][Next]_vars

\* The rate limiter: one batch, block times one second apart around the
\* end of the cooldown window.
CooldownInputs ==
    [admins |-> {Owner, ProviderB}, providers |-> {ProviderA},
     cooldowns |-> {0, 2, UintMax}, batchIds |-> {7},
     contributors |-> {ProviderA, ProviderB}, plain |-> {10},
     callers |-> {Gateway}, steps |-> {1, DefaultCooldownSeconds - 1}]
NextCooldown == Calls(CooldownInputs)
SpecCooldown == Init /\ [][NextCooldown]_vars

\* The ledger: one batch, every actor contributing, plaintexts up to the
\* largest euint32 value.
LedgerInputs ==
    [admins |-> {Owner}, providers |-> {ProviderA, ProviderB},
     cooldowns |-> {DefaultCooldownSeconds}, batchIds |-> {7},
     contributors |-> Actors, plain |-> {10, 15, EuintMax},
     callers |-> {Gateway}, steps |-> {DefaultCooldownSeconds}]
NextLedger == Calls(LedgerInputs)
SpecLedger == Init /\ [][NextLedger]_vars

\* The two kinds of gated action: one batch, the owner also registered as a
\* provider, so that one actor performs both kinds.
KindsInputs ==
    [admins |-> {Owner}, providers |-> {Owner, ProviderA},
     cooldowns |-> {DefaultCooldownSeconds}, batchIds |-> {7},
     contributors |-> {Owner, ProviderA}, plain |-> {10},
     callers |-> {Gateway}, steps |-> {DefaultCooldownSeconds}]
NextKinds == Calls(KindsInputs)
SpecKinds == Init /\ [][NextKinds]_vars

\* A request the contract has stored: requestBatchDecryption wrote its context.
Stored(r) == decryptionContexts[r].stateHash # ZeroHash
Processed(r) == decryptionContexts[r].processed
Pending(r) == Stored(r) /\ ~Processed(r)
BatchOf(r) == decryptionContexts[r].batchId
Accumulator(b) == batches[b].totalEncryptedBandwidth

\* The decryption service at work: the gateway delivers the authentic answer
\* for a pending request, and does not put it off for ever.
Deliver(r) ==
    /\ Stored(r) /\ ~Processed(r)
    /\ myCallback(Gateway, r, AuthenticPayload(r)[1], AuthenticPayload(r)[2])
\* One batch, one provider, blocks one second apart and a short window, so
\* that the batch gets several requests.
DeliveryInputs ==
    [admins |-> {Owner}, providers |-> {ProviderA},
     cooldowns |-> {2}, batchIds |-> {7},
     contributors |-> {ProviderA}, plain |-> {10},
     callers |-> {Gateway, ProviderB}, steps |-> {1}]
NextDelivery == Calls(DeliveryInputs)
SpecDelivery ==
    Init /\ [][NextDelivery]_vars /\ \A r \in RequestIds : WF_vars(Deliver(r))

\* ------------------------------------------------------------ frontend
\* addNode up to its first write: the call draws its node id.
addNode(c) ==
    /\ pc[c] = "idle"
    /\ issued[c] < MaxAddNode
    /\ issued' = [issued EXCEPT ![c] = issued[c] + 1]
    /\ nodeId' = [nodeId EXCEPT ![c] = NewNodeId(c, issued[c] + 1)]
    /\ keys' = [keys EXCEPT ![c] = << >>]
    /\ transactionStatus' = [transactionStatus EXCEPT ![c] = "pending"]
    /\ pc' = [pc EXCEPT ![c] = "setNode"]
    /\ UNCHANGED << contract, kvStore, nodes, outcomes >>

\* await contract.setData(`node_${nodeId}`, ...): the node record is written.
addNode_setNode(c) ==
    /\ pc[c] = "setNode"
    /\ kvStore' = [kvStore EXCEPT !.node[nodeId[c]] = << "record", nodeId[c] >>]
    /\ pc' = [pc EXCEPT ![c] = "getKeys"]
    /\ UNCHANGED << contract, nodeId, keys, nodes, transactionStatus, issued,
                    outcomes >>

\* await contract.getData("node_keys"), the parse and keys.push(nodeId)
addNode_getKeys(c) ==
    /\ pc[c] = "getKeys"
    /\ keys' = [keys EXCEPT ![c] = Append(ReadKeys(kvStore.node_keys), nodeId[c])]
    /\ pc' = [pc EXCEPT ![c] = "setKeys"]
    /\ UNCHANGED << contract, kvStore, nodeId, nodes, transactionStatus, issued,
                    outcomes >>

\* await contract.setData("node_keys", ...): the client's list replaces the
\* stored one; the call has succeeded.
addNode_setKeys(c) ==
    /\ pc[c] = "setKeys"
    /\ kvStore' = [kvStore EXCEPT !.node_keys = JSON_stringify(keys[c])]
    /\ transactionStatus' = [transactionStatus EXCEPT ![c] = "success"]
    /\ outcomes' = [outcomes EXCEPT ![nodeId[c]] = "success"]
    /\ pc' = [pc EXCEPT ![c] = "loadNodes"]
    /\ UNCHANGED << contract, nodeId, keys, nodes, issued >>

\* The nodes loadNodes lists: the ids of "node_keys" whose record is not
\* empty, in the order of the list.
loadNodes(keysBytes) ==
    SelectSeq(ReadKeys(keysBytes), LAMBDA k : Len(kvStore.node[k]) > 0)

\* await loadNodes(): the closing refresh of a successful call. A record is
\* never emptied again, so reading the records along with the list gives
\* what the later reads of loadNodes give.
addNode_loadNodes(c) ==
    /\ pc[c] = "loadNodes"
    /\ nodes' = [nodes EXCEPT ![c] = loadNodes(kvStore.node_keys)]
    /\ pc' = [pc EXCEPT ![c] = "idle"]
    /\ UNCHANGED << contract, kvStore, nodeId, keys, transactionStatus, issued,
                    outcomes >>

\* The catch branch: one of the awaited store calls threw (the wallet user
\* rejected the transaction, the provider failed); the call ends in error.
addNode_catch(c) ==
    /\ pc[c] \in {"setNode", "getKeys", "setKeys"}
    /\ transactionStatus' = [transactionStatus EXCEPT ![c] = "error"]
    /\ outcomes' = [outcomes EXCEPT ![nodeId[c]] = "error"]
    /\ pc' = [pc EXCEPT ![c] = "idle"]
    /\ UNCHANGED << contract, kvStore, nodeId, keys, nodes, issued >>

\* The clients' addNode calls, interleaved at their awaits; the contract is
\* left alone.
NextFrontend ==
    \/ \E c \in Clients : addNode(c)
    \/ \E c \in Clients : addNode_setNode(c)
    \/ \E c \in Clients : addNode_getKeys(c)
    \/ \E c \in Clients : addNode_setKeys(c)
    \/ \E c \in Clients : addNode_loadNodes(c)
    \/ \E c \in Clients : addNode_catch(c)
SpecFrontend == Init /\ [][NextFrontend]_vars

\* ============================================================ claims

\* ------------------------------------------------------------ C1
\* C1: for every request id at most one DecryptionCompleted event is ever
\* logged, a successful callback is the step that turns processed from false
\* to true, and once a request is processed every callback for its id,
\* whoever sends it and whatever it carries (the service's authentic answer
\* included), reverts with ReplayAttempt; the processed request's context and
\* its log never change again.
C1_ReplayState ==
    \A r \in RequestIds :
        /\ Len(completed[r]) <= 1
        /\ Processed(r) <=> Len(completed[r]) = 1
        /\ Processed(r) =>
              \A s \in Callers, cp \in Payloads :
                  myCallbackRevert(s, r, cp[1], cp[2]) = "ReplayAttempt"
C1_ReplayStep ==
    \A r \in RequestIds :
        /\ Processed(r) =>
              /\ decryptionContexts'[r] = decryptionContexts[r]
              /\ completed'[r] = completed[r]
        /\ completed'[r] # completed[r] => ~Processed(r) /\ decryptionContexts'[r].processed
C1_SingleCompletion == [](C1_ReplayState) /\ [][C1_ReplayStep]_vars

\* C1 witness: a processed request for which the service's authentic answer
\* is available and would pass the proof check, yet is refused as a replay.
C1_Witness ==
    \E r \in IssuedRequestIds :
        /\ Processed(r)
        /\ Len(completed[r]) = 1
        /\ FHE_checkSignatures(r, AuthenticPayload(r)[1], AuthenticPayload(r)[2])
        /\ myCallbackRevert(Gateway, r, AuthenticPayload(r)[1], AuthenticPayload(r)[2])
               = "ReplayAttempt"
        /\ result.op # "myCallback"

\* ------------------------------------------------------------ C2
\* C2: every logged DecryptionCompleted event of a request reports the
\* request's batch and the decryption of the handle the engine registered
\* for that request, which is the accumulator of that batch; and from the
\* step that stores a request on, the accumulator of its batch never changes,
\* so the reported aggregate is that of the accumulator at request time.
C2_PublishedState ==
    \A r \in RequestIds :
        /\ Stored(r) =>
              /\ r \in IssuedRequestIds
              /\ engineRequests[r + 1] = << Accumulator(BatchOf(r)) >>
        /\ \A i \in 1..Len(completed[r]) :
              /\ Stored(r)
              /\ completed[r][i].key = r
              /\ completed[r][i].batchId = BatchOf(r)
              /\ completed[r][i].data = Decrypt(engineRequests[r + 1][1])
              /\ completed[r][i].data = Decrypt(Accumulator(BatchOf(r)))
C2_FrozenStep ==
    \A r \in RequestIds :
        /\ Stored(r) =>
              /\ decryptionContexts'[r].batchId = BatchOf(r)
              /\ batches'[BatchOf(r)] = batches[BatchOf(r)]
        /\ ~Stored(r) /\ decryptionContexts'[r].stateHash # ZeroHash =>
              /\ Len(engineRequests') = r + 1
              /\ engineRequests'[r + 1] =
                     << batches[decryptionContexts'[r].batchId].totalEncryptedBandwidth >>
              /\ batches' = batches
C2_PublishedIsRequested == [](C2_PublishedState) /\ [][C2_FrozenStep]_vars

\* C2 witness: two requests on batches with different accumulators, both
\* completed, each event carrying the aggregate of its own batch.
C2_Witness ==
    \E r1, r2 \in IssuedRequestIds :
        /\ Len(completed[r1]) = 1 /\ Len(completed[r2]) = 1
        /\ completed[r1][1].data # completed[r2][1].data
        /\ completed[r1][1].data = 10

\* ------------------------------------------------------------ C3
\* C3 as stated: whoever calls, paused or not, in cooldown or not, a
\* contribution to a closed batch reverts with BatchClosedOrDoesNotExist.
C3_AlwaysBatchUnavailable ==
    \A s \in Actors, b \in BatchIds :
        batches[b].closed =>
            contributeBandwidthRevert(s, b) = "BatchClosedOrDoesNotExist"

\* C3 amended: a contribution to a closed batch always reverts, whoever
\* calls and whatever the pause and cooldown state, and the accumulator of a
\* closed batch never changes; the revert is BatchClosedOrDoesNotExist when
\* the caller is a provider, the contract is not paused and the cooldown
\* comparison passes, and otherwise that of the first failing earlier check,
\* in the order NotProvider, Paused, cooldown (CooldownActive, or the
\* arithmetic abort of lastSubmissionTime + cooldownSeconds).
C3_ClosedState ==
    \A s \in Actors, b \in BatchIds :
        batches[b].closed =>
            /\ contributeBandwidthRevert(s, b) # NoError
            /\ contributeBandwidthRevert(s, b) =
                  IF ~isProvider[s] THEN "NotProvider"
                  ELSE IF paused THEN "Paused"
                  ELSE IF cooldownCheck(lastSubmissionTime[s]) # NoError
                       THEN cooldownCheck(lastSubmissionTime[s])
                  ELSE "BatchClosedOrDoesNotExist"
C3_ClosedStep ==
    \A b \in BatchIds :
        batches[b].closed =>
            batches'[b].totalEncryptedBandwidth = batches[b].totalEncryptedBandwidth
C3_ClosedBatchRejects == [](C3_ClosedState) /\ [][C3_ClosedStep]_vars

\* C3 witness: a closed batch holding a contribution, and a provider who is
\* out of cooldown while the contract is not paused, so that the batch check
\* is the one that rejects the call.
C3_Witness ==
    \E s \in Actors, b \in BatchIds :
        /\ batches[b].closed
        /\ Len(batches[b].totalEncryptedBandwidth) > 1
        /\ isProvider[s] /\ ~paused
        /\ lastSubmissionTime[s] > 0
        /\ cooldownCheck(lastSubmissionTime[s]) = NoError
        /\ contributeBandwidthRevert(s, b) = "BatchClosedOrDoesNotExist"

\* ------------------------------------------------------------ C5
\* C5 as stated: a callback for a request id that requestBatchDecryption
\* never issued reverts with ReplayAttempt, whoever sends it and whatever
\* it carries.
C5_UnknownIsReplay ==
    \A r \in RequestIds \ IssuedRequestIds, s \in Callers, cp \in Payloads :
        myCallbackRevert(s, r, cp[1], cp[2]) = "ReplayAttempt"

\* ------------------------------------------------------------ C6
\* C6 as stated: a callback that marks a request processed and emits
\* DecryptionCompleted was sent by the engine's gateway.
C6_OnlyGateway ==
    result.op = "myCallback" => result.sender = Gateway

\* ------------------------------------------------------------ C7
\* The plaintext sum of everything folded into a handle.
PlainSum(h) == SumLeaves(h)

\* C7 as stated: the accumulator of a closed batch decrypts to the plaintext
\* sum of all the values contributed to it.
C7_ExactSum ==
    \A b \in BatchIds :
        batches[b].closed => Decrypt(Accumulator(b)) = PlainSum(Accumulator(b))

\* ------------------------------------------------------------ C8
\* C8: an actor whose last successful contribution was at t1 (the value of
\* lastSubmissionTime, written only by a successful call), calling again at
\* block time now with every other precondition met, is refused with
\* CooldownActive when now - t1 < cooldownSeconds and accepted when
\* now - t1 >= cooldownSeconds; the same for the owner and
\* requestBatchDecryption with lastDecryptionRequestTime.  cooldownSeconds
\* unchanged since t1 is covered by cooldownSeconds <= t1: the step that
\* writes a timestamp passed the check with the window it leaves in force
\* (second formula), so the window was at most the block time it recorded.
C8_WindowState ==
    \A a \in Actors, b \in BatchIds :
        /\ ( /\ isProvider[a] /\ ~paused
             /\ batches[b].exists /\ ~batches[b].closed
             /\ lastSubmissionTime[a] > 0
             /\ cooldownSeconds <= lastSubmissionTime[a] )
           => contributeBandwidthRevert(a, b) =
                 IF now - lastSubmissionTime[a] < cooldownSeconds
                 THEN "CooldownActive" ELSE NoError
        /\ ( /\ a = owner /\ ~paused
             /\ batches[b].exists /\ batches[b].closed
             /\ lastDecryptionRequestTime[a] > 0
             /\ cooldownSeconds <= lastDecryptionRequestTime[a] )
           => requestBatchDecryptionRevert(a, b) =
                 IF now - lastDecryptionRequestTime[a] < cooldownSeconds
                 THEN "CooldownActive" ELSE NoError
C8_RecordStep ==
    \A a \in Actors :
        /\ lastSubmissionTime'[a] # lastSubmissionTime[a] =>
              /\ lastSubmissionTime'[a] = now
              /\ now >= lastSubmissionTime[a] + cooldownSeconds
              /\ cooldownSeconds' = cooldownSeconds /\ now' = now
        /\ lastDecryptionRequestTime'[a] # lastDecryptionRequestTime[a] =>
              /\ lastDecryptionRequestTime'[a] = now
              /\ now >= lastDecryptionRequestTime[a] + cooldownSeconds
              /\ cooldownSeconds' = cooldownSeconds /\ now' = now
C8_CooldownWindow == [](C8_WindowState) /\ [][C8_RecordStep]_vars

\* C8 witness: with the default window never changed, a batch holds two
\* contributions of the only provider, the second one just accepted, so it
\* came at least cooldownSeconds after the first; the block before it, one
\* second earlier, was still inside the window.
C8_Witness ==
    \E b \in BatchIds :
        /\ cooldownSeconds = DefaultCooldownSeconds
        /\ Len(Accumulator(b)) = 3
        /\ result.op = "contributeBandwidth" /\ result.sender = ProviderA
        /\ lastSubmissionTime[ProviderA] = now
        /\ now = StartTime + DefaultCooldownSeconds

\* ------------------------------------------------------------ C9
\* C9: whenever a callback for a request id reverts with StateMismatch or
\* DecryptionFailed, the request is not processed, and if the request is a
\* stored one the service's authentic answer for it is accepted from any
\* sender in that same state (the reverted call changed nothing); the step
\* that accepts it logs one DecryptionCompleted event and marks the request
\* processed, leaving batches, cooldown records, providers, pause flag, window
\* and engine as they were.
C9_RetryState ==
    \A r \in RequestIds, s \in Callers, cp \in Payloads :
        myCallbackRevert(s, r, cp[1], cp[2]) \in {"StateMismatch", "DecryptionFailed"} =>
            /\ ~Processed(r)
            /\ Len(completed[r]) = 0
            /\ Stored(r) =>
                  \A s2 \in Callers :
                      myCallbackRevert(s2, r, AuthenticPayload(r)[1],
                                       AuthenticPayload(r)[2]) = NoError
C9_AcceptStep ==
    \A r \in RequestIds :
        (Pending(r) /\ decryptionContexts'[r].processed) =>
            /\ completed'[r] = << Event("DecryptionCompleted", r, BatchOf(r),
                                        abi_decode(AuthenticCleartexts(r))) >>
            /\ result'.op = "myCallback" /\ result'.id = r
            /\ decryptionContexts' = [decryptionContexts EXCEPT ![r].processed = TRUE]
            /\ UNCHANGED << isProvider, batches, lastSubmissionTime,
                            lastDecryptionRequestTime, owner, paused,
                            cooldownSeconds, now, engineRequests >>
C9_FailedCallbackRetry == [](C9_RetryState) /\ [][C9_AcceptStep]_vars

\* C9 witness: a pending stored request for which a payload with a made-up
\* proof is refused with DecryptionFailed while the authentic answer is
\* accepted, in a state where another request has already been completed.
C9_Witness ==
    \E r, q \in IssuedRequestIds :
        /\ Pending(r)
        /\ Processed(q)
        /\ myCallbackRevert(ProviderB, r, abi_encode(1), ForgedProof) = "DecryptionFailed"
        /\ myCallbackRevert(Gateway, r, AlteredCleartexts(r), AuthenticPayload(r)[2])
               = "DecryptionFailed"
        /\ myCallbackRevert(Gateway, r, AuthenticPayload(r)[1], AuthenticPayload(r)[2])
               = NoError

\* ------------------------------------------------------------ C10
\* C10: every stored request references a batch that exists and is closed;
\* requestBatchDecryption on a batch that is missing or still open never
\* succeeds, and reverts with BatchClosedOrDoesNotExist once the owner, pause
\* and cooldown checks that precede the batch check have passed; a step that
\* stores a request does so for a batch that is closed before the step.
C10_ClosedState ==
    /\ \A r \in RequestIds :
          Stored(r) => batches[BatchOf(r)].exists /\ batches[BatchOf(r)].closed
    /\ \A r \in IssuedRequestIds : Stored(r)
    /\ \A s \in Actors, b \in BatchIds :
          (~batches[b].exists \/ ~batches[b].closed) =>
              /\ requestBatchDecryptionRevert(s, b) # NoError
              /\ ( /\ s = owner /\ ~paused
                   /\ cooldownCheck(lastDecryptionRequestTime[s]) = NoError )
                 => requestBatchDecryptionRevert(s, b) = "BatchClosedOrDoesNotExist"
C10_StoreStep ==
    /\ \A r \in RequestIds :
          (~Stored(r) /\ decryptionContexts'[r].stateHash # ZeroHash) =>
              /\ batches[decryptionContexts'[r].batchId].exists
              /\ batches[decryptionContexts'[r].batchId].closed
    /\ (decryptionContexts' = decryptionContexts) => (engineRequests' = engineRequests)
C10_RequestsOnClosedBatches == [](C10_ClosedState) /\ [][C10_StoreStep]_vars

\* C10 witness: a request stored for a closed batch while the other batch is
\* open, so that the owner, unpaused and out of cooldown, is refused a
\* request on the open one for its state alone.
C10_Witness ==
    \E r \in RequestIds, b \in BatchIds :
        /\ Stored(r) /\ batches[BatchOf(r)].closed
        /\ batches[b].exists /\ ~batches[b].closed
        /\ ~paused
        /\ cooldownCheck(lastDecryptionRequestTime[owner]) = NoError
        /\ requestBatchDecryptionRevert(owner, b) = "BatchClosedOrDoesNotExist"

\* ------------------------------------------------------------ C11
\* C11: a closed batch stays as it is for ever: no step of any operation
\* changes its exists flag, its closed flag or its accumulator; a batch that
\* exists keeps existing; and a step that changes a batch's accumulator is
\* the creation of the batch or a contribution folded into it while it
\* exists and is not closed, which leaves it open.
C11_ClosedState ==
    \A b \in BatchIds :
        /\ batches[b].closed => batches[b].exists
        /\ batches[b].closed =>
              \A s \in Actors :
                  /\ openBatchRevert(s, b) # NoError
                  /\ closeBatchRevert(s, b) # NoError
                  /\ contributeBandwidthRevert(s, b) # NoError
C11_MonotonicStep ==
    \A b \in BatchIds :
        /\ batches[b].closed => batches'[b] = batches[b]
        /\ batches[b].exists => batches'[b].exists
        /\ batches'[b].totalEncryptedBandwidth # batches[b].totalEncryptedBandwidth =>
              \/ /\ ~batches[b].exists
                 /\ result'.op = "openBatch" /\ result'.id = b
              \/ /\ batches[b].exists /\ ~batches[b].closed
                 /\ result'.op = "contributeBandwidth" /\ result'.id = b
                 /\ batches'[b].exists /\ ~batches'[b].closed
C11_ClosedIsFinal == [](C11_ClosedState) /\ [][C11_MonotonicStep]_vars

\* C11 witness: a batch closed with a contribution in it, after which a
\* request on it was stored and completed and the other batch was opened:
\* the closed batch went through later operations of several kinds.
C11_Witness ==
    \E b \in BatchIds, r \in RequestIds :
        /\ batches[b].closed
        /\ Len(Accumulator(b)) = 2
        /\ Stored(r) /\ BatchOf(r) = b /\ Processed(r)
        /\ result.op = "openBatch" /\ result.id # b

\* ------------------------------------------------------------ C12
\* C12: openBatch by the owner of the unpaused contract (the gates checked
\* before the id) on an id that exists, open or closed, reverts with
\* InvalidParameter; by any caller in any state it reverts on an existing
\* id, so no step turns an existing batch back into the empty open batch;
\* on a fresh id it succeeds, and the step that creates a batch leaves it
\* existing, open, with the accumulator FHE.asEuint32(0), which decrypts
\* to 0.
C12_DuplicateState ==
    \A b \in BatchIds :
        /\ batches[b].exists =>
              /\ \A s \in Actors : openBatchRevert(s, b) # NoError
              /\ ~paused => openBatchRevert(owner, b) = "InvalidParameter"
        /\ (~batches[b].exists /\ ~paused) => openBatchRevert(owner, b) = NoError
C12_CreateStep ==
    \A b \in BatchIds :
        /\ (batches[b].exists /\ result'.op = "openBatch" /\ result'.id = b) =>
              batches'[b] = batches[b]
        /\ (~batches[b].exists /\ batches'[b].exists) =>
              /\ result'.op = "openBatch" /\ result'.id = b
              /\ ~batches'[b].closed
              /\ batches'[b].totalEncryptedBandwidth = << TrivialLeaf(0) >>
              /\ Decrypt(batches'[b].totalEncryptedBandwidth) = 0
C12_OpenBatchUnique == [](C12_DuplicateState) /\ [][C12_CreateStep]_vars

\* C12 witness: one batch open with a contribution in it and the other
\* closed, the contract unpaused: the owner's openBatch is refused for both
\* with InvalidParameter.
C12_Witness ==
    \E b1, b2 \in BatchIds :
        /\ batches[b1].exists /\ ~batches[b1].closed /\ Len(Accumulator(b1)) = 2
        /\ batches[b2].closed
        /\ ~paused
        /\ openBatchRevert(owner, b1) = "InvalidParameter"
        /\ openBatchRevert(owner, b2) = "InvalidParameter"

\* ------------------------------------------------------------ C13
\* C13: a processed request stays processed; the batchId and the stateHash
\* of a stored request never change; a processed request has been stored;
\* and the step in which requestBatchDecryption registers a request writes
\* the context of an id that held no request before, so it overwrites no
\* existing record and changes no other context.
C13_StoredState ==
    \A r \in RequestIds :
        /\ Processed(r) => Stored(r)
        /\ Stored(r) <=> r \in IssuedRequestIds
C13_RecordStep ==
    /\ \A r \in RequestIds :
          /\ Processed(r) => decryptionContexts'[r].processed
          /\ Stored(r) =>
                /\ decryptionContexts'[r].batchId = decryptionContexts[r].batchId
                /\ decryptionContexts'[r].stateHash = decryptionContexts[r].stateHash
    /\ engineRequests' # engineRequests =>
          LET requestId == result'.event.key IN
          /\ result'.op = "requestBatchDecryption"
          /\ requestId \in RequestIds
          /\ ~Stored(requestId)
          /\ decryptionContexts'[requestId].stateHash # ZeroHash
          /\ ~decryptionContexts'[requestId].processed
          /\ \A q \in RequestIds \ {requestId} :
                decryptionContexts'[q] = decryptionContexts[q]
C13_RequestsAreFinal == [](C13_StoredState) /\ [][C13_RecordStep]_vars

\* C13 witness: a second request has just been registered for the batch
\* whose first request is already processed: the two have different ids and
\* the first record is still there, processed.
C13_Witness ==
    \E r, q \in RequestIds :
        /\ r # q
        /\ Stored(r) /\ Processed(r)
        /\ Pending(q) /\ BatchOf(q) = BatchOf(r)
        /\ result.op = "requestBatchDecryption" /\ result.event.key = q

\* ------------------------------------------------------------ C14
\* C14: the stateHash stored for a request is the hash, with the contract's
\* address, of the one-element list holding the accumulator of the request's
\* batch; the step that registers a request reads the accumulator, hashes it,
\* hands the same handle to the engine and stores the context all at once:
\* the batches are the same before and after it, and the hash stored and
\* emitted is that of the accumulator both before and after the step.
C14_CommitmentState ==
    \A r \in RequestIds :
        Stored(r) =>
            decryptionContexts[r].stateHash =
                [cts |-> << Accumulator(BatchOf(r)) >>, self |-> ThisAddress]
C14_AtomicStep ==
    engineRequests' # engineRequests =>
        LET requestId == result'.event.key
            batchId == result'.id
        IN  /\ result'.op = "requestBatchDecryption"
            /\ batches' = batches
            /\ decryptionContexts'[requestId].batchId = batchId
            /\ decryptionContexts'[requestId].stateHash =
                   [cts |-> << batches[batchId].totalEncryptedBandwidth >>,
                    self |-> ThisAddress]
            /\ decryptionContexts'[requestId].stateHash =
                   [cts |-> << batches'[batchId].totalEncryptedBandwidth >>,
                    self |-> ThisAddress]
            /\ result'.event.data = decryptionContexts'[requestId].stateHash
            /\ engineRequests' =
                   Append(engineRequests, << batches[batchId].totalEncryptedBandwidth >>)
C14_CommitmentIsAtomic == [](C14_CommitmentState) /\ [][C14_AtomicStep]_vars

\* C14 witness: requests just registered on both batches, one empty and one
\* holding a contribution, so the two stored hashes differ, each being the
\* hash of its own batch's accumulator.
C14_Witness ==
    \E r, q \in RequestIds :
        /\ Stored(r) /\ Stored(q)
        /\ result.op = "requestBatchDecryption" /\ result.event.key = q
        /\ Len(Accumulator(BatchOf(q))) = 2
        /\ Len(Accumulator(BatchOf(r))) = 1
        /\ decryptionContexts[q].stateHash # decryptionContexts[r].stateHash
        /\ decryptionContexts[q].stateHash =
               [cts |-> << Accumulator(BatchOf(q)) >>, self |-> ThisAddress]

\* ------------------------------------------------------------ C15
\* C15: contributeBandwidth called by an actor whose isProvider flag is not
\* set (the owner never added, a provider after removeProvider, anyone else)
\* reverts with NotProvider, whatever the batch, the pause flag and the
\* cooldown; a step that writes an actor's lastSubmissionTime or folds a
\* contribution into an accumulator is a call of an actor whose flag is set.
C15_NotProviderState ==
    \A s \in Actors, b \in BatchIds :
        ~isProvider[s] => contributeBandwidthRevert(s, b) = "NotProvider"
C15_ProviderStep ==
    /\ \A a \in Actors :
          lastSubmissionTime'[a] # lastSubmissionTime[a] =>
              /\ isProvider[a]
              /\ result'.op = "contributeBandwidth" /\ result'.sender = a
    /\ \A b \in BatchIds :
          ( /\ batches[b].exists
            /\ batches'[b].totalEncryptedBandwidth # batches[b].totalEncryptedBandwidth )
          => /\ result'.op = "contributeBandwidth"
             /\ isProvider[result'.sender]
C15_OnlyProvidersContribute == [](C15_NotProviderState) /\ [][C15_ProviderStep]_vars

\* C15 witness: an open batch on the unpaused contract; ProviderA has
\* contributed, has since been removed and is out of cooldown; the owner was
\* never added; ProviderB is a provider.  The same call is accepted from
\* ProviderB and refused with NotProvider from the other two.
C15_Witness ==
    \E b \in BatchIds :
        /\ batches[b].exists /\ ~batches[b].closed /\ ~paused
        /\ lastSubmissionTime[ProviderA] > 0 /\ ~isProvider[ProviderA]
        /\ cooldownCheck(lastSubmissionTime[ProviderA]) = NoError
        /\ ~isProvider[owner] /\ isProvider[ProviderB]
        /\ contributeBandwidthRevert(ProviderB, b) = NoError
        /\ contributeBandwidthRevert(ProviderA, b) = "NotProvider"
        /\ contributeBandwidthRevert(owner, b) = "NotProvider"

\* ------------------------------------------------------------ C16
\* C16: cooldownSeconds is greater than 0 in every state; setCooldownSeconds(0)
\* reverts for every caller, with InvalidParameter for the owner, so the
\* value in force stays; the owner's setCooldownSeconds(n) with n > 0 is
\* accepted, and a step that changes cooldownSeconds is such a call, sets it
\* to n and reports the old and the new value.
C16_PositiveState ==
    /\ cooldownSeconds > 0
    /\ setCooldownSecondsRevert(owner, 0) = "InvalidParameter"
    /\ \A s \in Actors : setCooldownSecondsRevert(s, 0) # NoError
    /\ \A n \in {1, 2, DefaultCooldownSeconds, UintMax} :
          setCooldownSecondsRevert(owner, n) = NoError
C16_SetStep ==
    /\ cooldownSeconds' # cooldownSeconds =>
          /\ result'.op = "setCooldownSeconds"
          /\ result'.arg = << cooldownSeconds' >>
          /\ cooldownSeconds' > 0
          /\ result'.event.data = << cooldownSeconds, cooldownSeconds' >>
    /\ (result' # result /\ result'.op = "setCooldownSeconds") =>
          /\ result'.arg[1] > 0
          /\ cooldownSeconds' = result'.arg[1]
C16_CooldownPositive == [](C16_PositiveState) /\ [][C16_SetStep]_vars

\* C16 witness: the window has been set twice, last from the largest value
\* to 2, and setCooldownSeconds(0) by the owner is refused in that state.
C16_Witness ==
    /\ cooldownSeconds = 2
    /\ result.op = "setCooldownSeconds"
    /\ result.event.data = << UintMax, 2 >>
    /\ setCooldownSecondsRevert(owner, 0) = "InvalidParameter"

\* ------------------------------------------------------------ C17
\* C17: a step that changes an actor's lastSubmissionTime sets it to the
\* block time, is a contributeBandwidth call of that actor which passed all
\* of its checks, and folds the contribution into the batch's accumulator in
\* the same step; a step that changes an actor's lastDecryptionRequestTime
\* sets it to the block time, is a requestBatchDecryption call of that actor
\* which passed all of its checks, and registers and stores the request in
\* the same step.  Conversely the side effect never takes place without the
\* caller's timestamp being the block time afterwards.  So a call rejected
\* with NotProvider, NotOwner, Paused, CooldownActive or
\* BatchClosedOrDoesNotExist leaves every timestamp as it was.
C17_StampStep ==
    /\ \A a \in Actors :
          lastSubmissionTime'[a] # lastSubmissionTime[a] =>
              /\ lastSubmissionTime'[a] = now
              /\ result'.op = "contributeBandwidth" /\ result'.sender = a
              /\ contributeBandwidthRevert(a, result'.id) = NoError
              /\ batches'[result'.id].totalEncryptedBandwidth =
                     FHE_add(batches[result'.id].totalEncryptedBandwidth,
                             result'.event.data)
              /\ batches'[result'.id] # batches[result'.id]
              /\ \A o \in Actors \ {a} : lastSubmissionTime'[o] = lastSubmissionTime[o]
    /\ \A a \in Actors :
          lastDecryptionRequestTime'[a] # lastDecryptionRequestTime[a] =>
              /\ lastDecryptionRequestTime'[a] = now
              /\ result'.op = "requestBatchDecryption" /\ result'.sender = a
              /\ requestBatchDecryptionRevert(a, result'.id) = NoError
              /\ Len(engineRequests') = Len(engineRequests) + 1
              /\ decryptionContexts' # decryptionContexts
              /\ \A o \in Actors \ {a} :
                    lastDecryptionRequestTime'[o] = lastDecryptionRequestTime[o]
    /\ (\E b \in BatchIds :
            /\ batches[b].exists
            /\ batches'[b].totalEncryptedBandwidth # batches[b].totalEncryptedBandwidth)
       => lastSubmissionTime'[result'.sender] = now
    /\ engineRequests' # engineRequests =>
          lastDecryptionRequestTime'[result'.sender] = now
C17_RejectedState ==
    \A a \in Actors :
        /\ lastSubmissionTime[a] <= now
        /\ lastDecryptionRequestTime[a] <= now
        /\ lastSubmissionTime[a] > 0 => \E b \in BatchIds : Len(Accumulator(b)) > 1
        /\ lastDecryptionRequestTime[a] > 0 => (a = owner /\ Len(engineRequests) > 0)
C17_TimestampWithEffect == [](C17_RejectedState) /\ [][C17_StampStep]_vars

\* C17 witness: the owner's request has just been registered at the block
\* time, after ProviderA's contribution at an earlier block; a repeated
\* request is now refused with CooldownActive, ProviderA's contribution with
\* BatchClosedOrDoesNotExist, and ProviderB, whose every call was refused,
\* has no timestamp.
C17_Witness ==
    \E b \in BatchIds :
        /\ result.op = "requestBatchDecryption" /\ result.id = b
        /\ lastDecryptionRequestTime[owner] = now
        /\ lastSubmissionTime[ProviderA] > 0 /\ lastSubmissionTime[ProviderA] < now
        /\ lastSubmissionTime[ProviderB] = 0
        /\ ~paused /\ isProvider[ProviderA]
        /\ requestBatchDecryptionRevert(owner, b) = "CooldownActive"
        /\ contributeBandwidthRevert(ProviderA, b) = "BatchClosedOrDoesNotExist"
        /\ contributeBandwidthRevert(ProviderB, b) = "NotProvider"

\* ------------------------------------------------------------ C18
\* C18: while paused is set, openBatch, closeBatch and
\* requestBatchDecryption called by the owner and contributeBandwidth called
\* by a provider revert with Paused for every batch id, and the four revert
\* for every caller; a step taken from a paused state changes no batch, no
\* cooldown timestamp, registers no request with the engine and writes no
\* request's batchId or stateHash (the only request field that can change
\* is processed, set by myCallback, which is not pausable).
C18_PausedState ==
    paused =>
        \A b \in BatchIds :
            /\ openBatchRevert(owner, b) = "Paused"
            /\ closeBatchRevert(owner, b) = "Paused"
            /\ requestBatchDecryptionRevert(owner, b) = "Paused"
            /\ \A s \in Actors :
                  /\ isProvider[s] => contributeBandwidthRevert(s, b) = "Paused"
                  /\ openBatchRevert(s, b) # NoError
                  /\ closeBatchRevert(s, b) # NoError
                  /\ requestBatchDecryptionRevert(s, b) # NoError
                  /\ contributeBandwidthRevert(s, b) # NoError
C18_PausedStep ==
    paused =>
        /\ batches' = batches
        /\ lastSubmissionTime' = lastSubmissionTime
        /\ lastDecryptionRequestTime' = lastDecryptionRequestTime
        /\ engineRequests' = engineRequests
        /\ \A r \in RequestIds :
              /\ decryptionContexts'[r].batchId = decryptionContexts[r].batchId
              /\ decryptionContexts'[r].stateHash = decryptionContexts[r].stateHash
        /\ decryptionContexts' # decryptionContexts => result'.op = "myCallback"
C18_PauseBlocksLedger == [](C18_PausedState) /\ [][C18_PausedStep]_vars

\* C18 witness: the contract is paused with one batch open and holding a
\* contribution, the other closed, ProviderA a provider and both ProviderA
\* and the owner out of cooldown: closeBatch and contributeBandwidth on the
\* open batch and requestBatchDecryption on the closed one have nothing
\* against them but the pause, and are refused with Paused.
C18_Witness ==
    \E b1, b2 \in BatchIds :
        /\ paused
        /\ batches[b1].exists /\ ~batches[b1].closed /\ Len(Accumulator(b1)) = 2
        /\ batches[b2].closed
        /\ isProvider[ProviderA]
        /\ cooldownCheck(lastSubmissionTime[ProviderA]) = NoError
        /\ cooldownCheck(lastDecryptionRequestTime[owner]) = NoError
        /\ closeBatchRevert(owner, b1) = "Paused"
        /\ contributeBandwidthRevert(ProviderA, b1) = "Paused"
        /\ requestBatchDecryptionRevert(owner, b2) = "Paused"

\* ------------------------------------------------------------ C19
\* C19: closeBatch on a batch that does not exist or is already closed
\* reverts for every caller, with BatchClosedOrDoesNotExist for the owner of
\* the unpaused contract (the gates checked first), and is accepted from the
\* owner of the unpaused contract on an open batch; the step that closes a
\* batch changes only its closed flag and emits BatchClosed with the handle
\* of the accumulator the batch holds before and after the step.  That
\* accumulator is FHE.asEuint32(0) with every contribution accepted since
\* the creation folded in by FHE.add, in order, and nothing else: the
\* engine's sum of the accepted contributions (euint32 arithmetic).
C19_CloseState ==
    \A b \in BatchIds :
        /\ (~batches[b].exists \/ batches[b].closed) =>
              /\ \A s \in Actors : closeBatchRevert(s, b) # NoError
              /\ ~paused => closeBatchRevert(owner, b) = "BatchClosedOrDoesNotExist"
        /\ (batches[b].exists /\ ~batches[b].closed /\ ~paused) =>
              closeBatchRevert(owner, b) = NoError
        /\ batches[b].exists =>
              /\ Len(Accumulator(b)) >= 1
              /\ Accumulator(b)[1] = TrivialLeaf(0)
              /\ \A i \in 2..Len(Accumulator(b)) : Accumulator(b)[i].src = "input"
        /\ ~batches[b].exists => Accumulator(b) = NullHandle
C19_CloseStep ==
    \A b \in BatchIds :
        /\ (~batches[b].closed /\ batches'[b].closed) =>
              /\ result'.op = "closeBatch" /\ result'.id = b
              /\ batches' = [batches EXCEPT ![b].closed = TRUE]
              /\ result'.event = Event("BatchClosed", 0, b, batches[b].totalEncryptedBandwidth)
              /\ result'.event.data = batches'[b].totalEncryptedBandwidth
              /\ Decrypt(result'.event.data) =
                     PlainSum(batches[b].totalEncryptedBandwidth) % EuintModulus
        /\ ( /\ batches[b].exists
             /\ batches'[b].totalEncryptedBandwidth # batches[b].totalEncryptedBandwidth )
           => /\ result'.event.name = "BandwidthContributed"
              /\ result'.event.batchId = b
              /\ batches'[b].totalEncryptedBandwidth =
                     batches[b].totalEncryptedBandwidth \o result'.event.data
C19_CloseBatch == [](C19_CloseState) /\ [][C19_CloseStep]_vars

\* C19 witness: the batch has just been closed after a contribution from
\* each of the two providers; the event carries the handle with both folded
\* in, and a second closeBatch by the owner is refused.
C19_Witness ==
    \E b \in BatchIds :
        /\ result.op = "closeBatch" /\ result.id = b
        /\ batches[b].closed /\ ~paused
        /\ lastSubmissionTime[ProviderA] > 0 /\ lastSubmissionTime[ProviderB] > 0
        /\ Len(result.event.data) = 3
        /\ result.event.data = Accumulator(b)
        /\ closeBatchRevert(owner, b) = "BatchClosedOrDoesNotExist"

\* ------------------------------------------------------------ C20
\* C20: owner is the deployer in every state and no step changes it; each
\* of the eight owner-only functions called by anyone but the owner reverts
\* with NotOwner, whatever its arguments and whatever the state (provider or
\* not, paused or not, in cooldown or not); and a step that changes the
\* provider set, the pause flag, the cooldown window, a batch's exists or
\* closed flag, or registers a decryption request is a call of the owner.
C20_OwnerState ==
    /\ owner = Owner
    /\ \A s \in Actors \ {owner} :
          /\ addProviderRevert(s) = "NotOwner"
          /\ removeProviderRevert(s) = "NotOwner"
          /\ pauseRevert(s) = "NotOwner"
          /\ unpauseRevert(s) = "NotOwner"
          /\ \A n \in 0..2 \cup {UintMax} : setCooldownSecondsRevert(s, n) = "NotOwner"
          /\ \A b \in BatchIds :
                /\ openBatchRevert(s, b) = "NotOwner"
                /\ closeBatchRevert(s, b) = "NotOwner"
                /\ requestBatchDecryptionRevert(s, b) = "NotOwner"
C20_OwnerStep ==
    /\ owner' = owner
    /\ ( \/ isProvider' # isProvider
         \/ paused' # paused
         \/ cooldownSeconds' # cooldownSeconds
         \/ \E b \in BatchIds : \/ batches'[b].exists # batches[b].exists
                                 \/ batches'[b].closed # batches[b].closed
         \/ engineRequests' # engineRequests
         \/ lastDecryptionRequestTime' # lastDecryptionRequestTime )
       => /\ result'.sender = owner
          /\ result'.op \in {"addProvider", "removeProvider", "pause", "unpause",
                              "setCooldownSeconds", "openBatch", "closeBatch",
                              "requestBatchDecryption"}
C20_OwnerOnly == [](C20_OwnerState) /\ [][C20_OwnerStep]_vars

\* C20 witness: ProviderA is a registered provider and has contributed to
\* the open batch, the contract is unpaused and the owner could close the
\* batch and pause; ProviderA and ProviderB, who both send owner-only calls,
\* are refused with NotOwner.
C20_Witness ==
    \E b \in BatchIds :
        /\ isProvider[ProviderA] /\ lastSubmissionTime[ProviderA] > 0
        /\ batches[b].exists /\ ~batches[b].closed /\ ~paused
        /\ cooldownSeconds # DefaultCooldownSeconds
        /\ closeBatchRevert(owner, b) = NoError /\ pauseRevert(owner) = NoError
        /\ closeBatchRevert(ProviderA, b) = "NotOwner"
        /\ pauseRevert(ProviderB) = "NotOwner"
        /\ setCooldownSecondsRevert(ProviderA, 2) = "NotOwner"
        /\ addProviderRevert(ProviderB) = "NotOwner"

\* ------------------------------------------------------------ C21
\* C21: while paused is set, pause reverts for every caller, with Paused
\* for the owner, so the flag stays set; while it is not set the owner's
\* pause is accepted; the owner's unpause is accepted in every state, paused
\* or not; a step that sets the flag is a pause call from a state where it
\* was not set, a step that clears it is an unpause call, and every accepted
\* unpause leaves it cleared.  So from every paused state one call of the
\* owner leads to an unpaused state.
C21_PauseState ==
    /\ unpauseRevert(owner) = NoError
    /\ paused =>
          /\ pauseRevert(owner) = "Paused"
          /\ \A s \in Actors : pauseRevert(s) # NoError
          /\ ENABLED (unpause(owner) /\ ~paused')
    /\ ~paused => pauseRevert(owner) = NoError
C21_ToggleStep ==
    /\ (~paused /\ paused') => (result'.op = "pause" /\ result'.sender = owner)
    /\ (paused /\ ~paused') => (result'.op = "unpause" /\ result'.sender = owner)
    /\ (result' # result /\ result'.op = "unpause") => ~paused'
    /\ (result' # result /\ result'.op = "pause") => (~paused /\ paused')
C21_PauseUnpause == [](C21_PauseState) /\ [][C21_ToggleStep]_vars

\* C21 witness: the owner has just paused the contract; a second pause is
\* refused with Paused while unpause is accepted.
C21_Witness ==
    /\ paused
    /\ result.op = "pause"
    /\ pauseRevert(owner) = "Paused"
    /\ unpauseRevert(owner) = NoError
    /\ \E b \in BatchIds : batches[b].exists

\* ------------------------------------------------------------ C22
\* C22: a stored request is never deleted, and the only step that changes
\* its context is an accepted myCallback for its own id, taken while it is
\* pending, which sets processed and nothing else; every other step (a
\* further request on the same batch, pause, unpause, a cooldown or provider
\* change, a callback for another id, a new block) leaves it as it is, so a
\* pending request stays pending until such a callback, however long.
C22_LifecycleStep ==
    \A r \in RequestIds :
        Stored(r) =>
            /\ decryptionContexts'[r].stateHash # ZeroHash
            /\ decryptionContexts'[r] # decryptionContexts[r] =>
                  /\ Pending(r)
                  /\ decryptionContexts'[r] =
                         [decryptionContexts[r] EXCEPT !.processed = TRUE]
                  /\ result'.op = "myCallback" /\ result'.id = r
                  /\ myCallbackRevert(result'.sender, r, result'.arg[1], result'.arg[2])
                         = NoError
            /\ (Pending(r) /\ ~(result'.op = "myCallback" /\ result'.id = r)) =>
                  (decryptionContexts'[r].stateHash # ZeroHash
                   /\ ~decryptionContexts'[r].processed)
C22_LifecycleState ==
    \A r \in RequestIds :
        /\ Processed(r) => Stored(r)
        /\ Pending(r) => Len(completed[r]) = 0
C22_RequestLifecycle == [](C22_LifecycleState) /\ [][C22_LifecycleStep]_vars

\* C22 witness: two requests on the same batch, the first processed by its
\* callback, the second still pending after that callback, after two new
\* blocks and after the owner paused the contract.
C22_Witness ==
    \E r, q \in RequestIds :
        /\ Processed(r) /\ Pending(q)
        /\ BatchOf(r) = BatchOf(q)
        /\ ticks = MaxTicks
        /\ paused /\ result.op = "pause"

\* ------------------------------------------------------------ C23
\* C23: on the unpaused contract the owner's requestBatchDecryption on a
\* closed batch is decided by the cooldown check on the owner's own
\* lastDecryptionRequestTime alone: it is accepted or refused regardless of
\* the pending and processed requests the batch already has, and the one
\* timestamp gates the requests on every batch.  Every pending request is
\* completed on its own: the authentic answer for it is accepted whatever
\* the state of the other requests, its completion changes no other
\* request, and each request id logs at most one DecryptionCompleted event,
\* so a batch has as many such events as it has completed requests.
C23_RepeatState ==
    /\ \A b \in BatchIds :
          (batches[b].exists /\ batches[b].closed /\ ~paused) =>
              requestBatchDecryptionRevert(owner, b) =
                  cooldownCheck(lastDecryptionRequestTime[owner])
    /\ \A r \in RequestIds :
          /\ Pending(r) =>
                myCallbackRevert(Gateway, r, AuthenticPayload(r)[1],
                                 AuthenticPayload(r)[2]) = NoError
          /\ Len(completed[r]) <= 1
          /\ \A i \in 1..Len(completed[r]) :
                completed[r][i].key = r /\ completed[r][i].batchId = BatchOf(r)
C23_IndependentStep ==
    \A r \in RequestIds :
        completed'[r] # completed[r] =>
            \A q \in RequestIds \ {r} :
                /\ completed'[q] = completed[q]
                /\ decryptionContexts'[q] = decryptionContexts[q]
C23_RepeatedRequests == [](C23_RepeatState) /\ [][C23_IndependentStep]_vars

\* C23 witness: two requests with different ids on the same closed batch,
\* both completed, each with its own DecryptionCompleted event for that
\* batch; the other batch is closed too and has no request, and the owner's
\* request on it is refused with CooldownActive because of the request just
\* made on the first batch.
C23_Witness ==
    \E r, q \in RequestIds, x, y \in BatchIds :
        /\ r # q /\ x # y
        /\ BatchOf(r) = x /\ BatchOf(q) = x
        /\ Len(completed[r]) = 1 /\ Len(completed[q]) = 1
        /\ completed[r][1].batchId = x /\ completed[q][1].batchId = x
        /\ batches[y].closed /\ ~paused
        /\ lastDecryptionRequestTime[owner] = now
        /\ requestBatchDecryptionRevert(owner, y) = "CooldownActive"

\* ------------------------------------------------------------ C24
\* C24: an accepted contributeBandwidth writes the block time into the
\* caller's lastSubmissionTime and into no other cooldown record: every
\* lastDecryptionRequestTime, the caller's included, and every other
\* actor's lastSubmissionTime stay, and so does the outcome of every
\* requestBatchDecryption call and of every other actor's contributeBandwidth
\* call.  An accepted requestBatchDecryption writes the block time into the
\* caller's lastDecryptionRequestTime and into no other record, and leaves
\* the outcome of every contributeBandwidth call, the caller's included, and
\* of every other actor's requestBatchDecryption call as it was.  Both
\* checks read the one cooldownSeconds, which neither call changes.
C24_KindStep ==
    /\ (\E b \in BatchIds :
            /\ batches[b].exists
            /\ batches'[b].totalEncryptedBandwidth # batches[b].totalEncryptedBandwidth)
       => /\ lastSubmissionTime' =
                 [lastSubmissionTime EXCEPT ![result'.sender] = now]
          /\ lastDecryptionRequestTime' = lastDecryptionRequestTime
          /\ cooldownSeconds' = cooldownSeconds
          /\ \A a \in Actors, b \in BatchIds :
                /\ requestBatchDecryptionRevert(a, b)' = requestBatchDecryptionRevert(a, b)
                /\ a # result'.sender =>
                      contributeBandwidthRevert(a, b)' = contributeBandwidthRevert(a, b)
    /\ engineRequests' # engineRequests
       => /\ lastDecryptionRequestTime' =
                 [lastDecryptionRequestTime EXCEPT ![result'.sender] = now]
          /\ lastSubmissionTime' = lastSubmissionTime
          /\ cooldownSeconds' = cooldownSeconds
          /\ \A a \in Actors, b \in BatchIds :
                /\ contributeBandwidthRevert(a, b)' = contributeBandwidthRevert(a, b)
                /\ a # result'.sender =>
                      requestBatchDecryptionRevert(a, b)' = requestBatchDecryptionRevert(a, b)
C24_KindState ==
    \A a \in Actors, b \in BatchIds :
        /\ (isProvider[a] /\ ~paused /\ batches[b].exists /\ ~batches[b].closed) =>
              contributeBandwidthRevert(a, b) = cooldownCheck(lastSubmissionTime[a])
        /\ (a = owner /\ ~paused /\ batches[b].exists /\ batches[b].closed) =>
              requestBatchDecryptionRevert(a, b) =
                  cooldownCheck(lastDecryptionRequestTime[a])
C24_RecordsPerActorAndKind == [](C24_KindState) /\ [][C24_KindStep]_vars

\* C24 witness: in one block ProviderA contributed, the owner, who is a
\* provider too, contributed, and the owner's decryption request has just
\* been accepted: neither ProviderA's contribution nor the owner's own
\* contribution delayed the owner's request.
C24_Witness ==
    /\ isProvider[owner]
    /\ result.op = "requestBatchDecryption" /\ result.sender = owner
    /\ lastSubmissionTime[ProviderA] = now
    /\ lastSubmissionTime[owner] = now
    /\ lastDecryptionRequestTime[owner] = now
    /\ lastDecryptionRequestTime[ProviderA] = 0

\* ------------------------------------------------------------ C25
\* The accumulator of the scenario: zero, then 10, then 15 folded in.
C25_Accumulator == << TrivialLeaf(0), InputLeaf(10), InputLeaf(15) >>
C25_Payload(r) == << abi_encode(25), KmsProof(r, abi_encode(25)) >>

\* C25: each call of the scenario is accepted in the state the previous
\* calls leave.  On the unpaused contract the owner's openBatch(7) is
\* accepted while batch 7 does not exist; a provider's first contribution
\* and the owner's closeBatch are accepted while it is open; the owner's
\* first request is accepted once it is closed.  For a request stored on
\* batch 7 holding the contributions 10 and 15, the decryption service's
\* answer is the cleartext 25; while the request is pending the callback
\* with cleartext 25 and its proof is accepted; the accepting step logs
\* DecryptionCompleted with batch 7 and aggregate 25; and once it is
\* processed the same callback reverts with ReplayAttempt.
C25_ScenarioState ==
    /\ (~batches[7].exists /\ ~paused) => openBatchRevert(owner, 7) = NoError
    /\ (batches[7].exists /\ ~batches[7].closed /\ ~paused) =>
          /\ closeBatchRevert(owner, 7) = NoError
          /\ \A p \in Actors :
                (isProvider[p] /\ lastSubmissionTime[p] = 0) =>
                    contributeBandwidthRevert(p, 7) = NoError
    /\ (batches[7].closed /\ ~paused /\ lastDecryptionRequestTime[owner] = 0) =>
          requestBatchDecryptionRevert(owner, 7) = NoError
    /\ \A r \in RequestIds :
          (Stored(r) /\ BatchOf(r) = 7 /\ Accumulator(7) = C25_Accumulator) =>
              /\ AuthenticPayload(r) = C25_Payload(r)
              /\ Pending(r) =>
                    myCallbackRevert(Gateway, r, C25_Payload(r)[1], C25_Payload(r)[2])
                        = NoError
              /\ Processed(r) =>
                    /\ completed[r] = << Event("DecryptionCompleted", r, 7, 25) >>
                    /\ myCallbackRevert(Gateway, r, C25_Payload(r)[1], C25_Payload(r)[2])
                           = "ReplayAttempt"
C25_ScenarioStep ==
    \A r \in RequestIds :
        ( /\ Pending(r) /\ BatchOf(r) = 7 /\ Accumulator(7) = C25_Accumulator
          /\ completed'[r] # completed[r] )
        => /\ result'.arg = C25_Payload(r)
           /\ result'.event = Event("DecryptionCompleted", r, 7, 25)
           /\ decryptionContexts'[r].processed
C25_EndToEnd == [](C25_ScenarioState) /\ [][C25_ScenarioStep]_vars

\* C25 witness: the end of the scenario.  ProviderA contributed in the
\* deployment block and ProviderB one block later, so the 10 is ProviderA's
\* and the 15 ProviderB's; batch 7 is closed; the request holds the hash of
\* the accumulator; the callback with 25 has just been accepted, its event
\* reports 25 for batch 7, and the same callback is now a replay.
C25_Witness ==
    \E r \in RequestIds :
        /\ batches[7].closed /\ Accumulator(7) = C25_Accumulator
        /\ lastSubmissionTime[ProviderA] = StartTime
        /\ lastSubmissionTime[ProviderB] = StartTime + DefaultCooldownSeconds
        /\ Stored(r) /\ BatchOf(r) = 7
        /\ decryptionContexts[r].stateHash = hashCiphertexts(<< C25_Accumulator >>)
        /\ result = Call("myCallback", Gateway, r, C25_Payload(r),
                         Event("DecryptionCompleted", r, 7, 25))
        /\ completed[r] = << Event("DecryptionCompleted", r, 7, 25) >>
        /\ myCallbackRevert(Gateway, r, C25_Payload(r)[1], C25_Payload(r)[2])
               = "ReplayAttempt"

\* ------------------------------------------------------------ C26
\* C26: the flags the events set record which events have been emitted:
\* exists is set by the step that emits BatchOpened, closed by the step that
\* emits BatchClosed, a context is stored by the step that emits
\* DecryptionRequested, the log grows by the step that emits
\* DecryptionCompleted.  Each event is emitted from a state in which its
\* predecessor's flag is already set: BatchOpened(b) while b does not
\* exist; BandwidthContributed(b) while b exists and is not closed, which it
\* still is afterwards; BatchClosed(b) while b exists and is not closed;
\* DecryptionRequested(r, b) while b is closed and r is neither stored nor
\* completed, and r is not completed in that step; DecryptionCompleted(r, b)
\* in a myCallback step from a state where r is already stored for b.
C26_OrderState ==
    /\ \A b \in BatchIds :
          /\ batches[b].closed => batches[b].exists
          /\ Len(Accumulator(b)) > 0 => batches[b].exists
    /\ \A r \in RequestIds :
          /\ Stored(r) => batches[BatchOf(r)].closed
          /\ Len(completed[r]) > 0 => Stored(r)
C26_OrderStep ==
    /\ \A b \in BatchIds :
          /\ (~batches[b].exists /\ batches'[b].exists) =>
                result'.event = Event("BatchOpened", 0, b, << >>)
          /\ (batches[b].exists /\
                batches'[b].totalEncryptedBandwidth # batches[b].totalEncryptedBandwidth) =>
                /\ result'.event.name = "BandwidthContributed"
                /\ result'.event.batchId = b
                /\ ~batches[b].closed /\ ~batches'[b].closed
          /\ (~batches[b].closed /\ batches'[b].closed) =>
                /\ result'.event.name = "BatchClosed" /\ result'.event.batchId = b
                /\ batches[b].exists
    /\ engineRequests' # engineRequests =>
          LET r == result'.event.key
              b == result'.event.batchId
          IN  /\ result'.event.name = "DecryptionRequested"
              /\ batches[b].closed
              /\ ~Stored(r) /\ decryptionContexts'[r].stateHash # ZeroHash
              /\ decryptionContexts'[r].batchId = b
              /\ completed[r] = << >> /\ completed'[r] = << >>
    /\ \A r \in RequestIds :
          completed'[r] # completed[r] =>
              /\ result'.op = "myCallback"
              /\ result'.event.name = "DecryptionCompleted"
              /\ result'.event.key = r /\ result'.event.batchId = BatchOf(r)
              /\ Stored(r) /\ batches[BatchOf(r)].closed
              /\ engineRequests' = engineRequests
    /\ result' # result =>
          /\ result'.event.name = "BatchOpened" =>
                ~batches[result'.event.batchId].exists
          /\ result'.event.name \in {"BandwidthContributed", "BatchClosed"} =>
                /\ batches[result'.event.batchId].exists
                /\ ~batches[result'.event.batchId].closed
          /\ result'.event.name = "DecryptionRequested" =>
                batches[result'.event.batchId].closed
          /\ result'.event.name = "DecryptionCompleted" =>
                Stored(result'.event.key)
C26_EventOrder == [](C26_OrderState) /\ [][C26_OrderStep]_vars

\* C26 witness: the whole chain for one batch: it holds a contribution, is
\* closed, a request on it is stored, and the callback that completes the
\* request has just emitted DecryptionCompleted, while the other batch is
\* still open.
C26_Witness ==
    \E r \in RequestIds, b \in BatchIds :
        /\ result.op = "myCallback"
        /\ result.event.name = "DecryptionCompleted"
        /\ result.event.key = r /\ result.event.batchId = b
        /\ BatchOf(r) = b /\ Processed(r)
        /\ batches[b].closed /\ Len(Accumulator(b)) = 2
        /\ \E o \in BatchIds : batches[o].exists /\ ~batches[o].closed

\* ------------------------------------------------------------ C27
\* The cooldown comparison of lines 114 and 123 without its arithmetic:
\* the window after the last recorded call has not elapsed.
C27_InWindow(last) == last + cooldownSeconds <= UintMax /\ now < last + cooldownSeconds
C27_Elapsed(last) == last + cooldownSeconds <= UintMax /\ now >= last + cooldownSeconds

\* C27: contributeBandwidth applies its checks in the order provider, pause,
\* cooldown, batch, and requestBatchDecryption in the order owner, pause,
\* cooldown, batch: in every state and for every caller and batch id the
\* call reverts with the error of the first check in that order that fails
\* (NotProvider or NotOwner, then Paused, then CooldownActive, then
\* BatchClosedOrDoesNotExist), whatever the later checks would say, and is
\* accepted when none fails.  Where the sum of line 114 or 123 exceeds the
\* uint256 range the call aborts at the cooldown check, third in the order
\* as well, before the batch is looked at.
C27_OrderState ==
    \A s \in Actors, b \in BatchIds :
        /\ ~isProvider[s] => contributeBandwidthRevert(s, b) = "NotProvider"
        /\ (isProvider[s] /\ paused) => contributeBandwidthRevert(s, b) = "Paused"
        /\ (isProvider[s] /\ ~paused /\ C27_InWindow(lastSubmissionTime[s])) =>
              contributeBandwidthRevert(s, b) = "CooldownActive"
        /\ (isProvider[s] /\ ~paused /\ C27_Elapsed(lastSubmissionTime[s])) =>
              contributeBandwidthRevert(s, b) =
                  IF ~batches[b].exists \/ batches[b].closed
                  THEN "BatchClosedOrDoesNotExist" ELSE NoError
        /\ (isProvider[s] /\ ~paused /\ lastSubmissionTime[s] + cooldownSeconds > UintMax) =>
              contributeBandwidthRevert(s, b) = "Panic"
        /\ s # owner => requestBatchDecryptionRevert(s, b) = "NotOwner"
        /\ (s = owner /\ paused) => requestBatchDecryptionRevert(s, b) = "Paused"
        /\ (s = owner /\ ~paused
                /\ lastDecryptionRequestTime[s] + cooldownSeconds > UintMax) =>
              requestBatchDecryptionRevert(s, b) = "Panic"
        /\ (s = owner /\ ~paused /\ C27_InWindow(lastDecryptionRequestTime[s])) =>
              requestBatchDecryptionRevert(s, b) = "CooldownActive"
        /\ (s = owner /\ ~paused /\ C27_Elapsed(lastDecryptionRequestTime[s])) =>
              requestBatchDecryptionRevert(s, b) =
                  IF ~batches[b].exists \/ ~batches[b].closed
                  THEN "BatchClosedOrDoesNotExist" ELSE NoError

\* C27 witness: a provider inside the cooldown window after a contribution,
\* the contract paused, one batch id missing: for the missing batch a
\* non-owner's request violates the owner, pause and batch checks and gets
\* NotOwner, the owner's request violates pause and batch and gets Paused,
\* the provider's contribution violates pause, cooldown and batch and gets
\* Paused.
C27_Witness ==
    \E b \in BatchIds :
        /\ ~batches[b].exists /\ paused
        /\ isProvider[ProviderA]
        /\ lastSubmissionTime[ProviderA] > 0
        /\ C27_InWindow(lastSubmissionTime[ProviderA])
        /\ requestBatchDecryptionRevert(ProviderA, b) = "NotOwner"
        /\ requestBatchDecryptionRevert(owner, b) = "Paused"
        /\ contributeBandwidthRevert(ProviderA, b) = "Paused"

\* ------------------------------------------------------------ C28
\* C28: for every stored request the hash myCallback recomputes from the
\* accumulator of the request's batch equals the stored stateHash, in every
\* reachable state; so for a stored request no callback, whoever sends it
\* and whatever it carries, reverts with StateMismatch: it reverts with
\* ReplayAttempt if the request is processed, else with DecryptionFailed if
\* the proof check fails, and is accepted otherwise.
C28_MatchState ==
    \A r \in RequestIds :
        Stored(r) =>
            /\ hashCiphertexts(<< batches[decryptionContexts[r].batchId]
                                     .totalEncryptedBandwidth >>)
                   = decryptionContexts[r].stateHash
            /\ \A s \in Callers, cp \in Payloads :
                  /\ myCallbackRevert(s, r, cp[1], cp[2]) # "StateMismatch"
                  /\ myCallbackRevert(s, r, cp[1], cp[2]) =
                        IF decryptionContexts[r].processed THEN "ReplayAttempt"
                        ELSE IF ~FHE_checkSignatures(r, cp[1], cp[2])
                             THEN "DecryptionFailed"
                        ELSE NoError

\* C28 witness: a pending request stored for a closed batch, after which the
\* other batch, still open, received a contribution in a later block: the
\* ledger changed after the request, the request's own batch did not, and
\* the authentic answer is accepted while a made-up proof is refused with
\* DecryptionFailed.
C28_Witness ==
    \E r \in RequestIds, o \in BatchIds :
        /\ Pending(r) /\ o # BatchOf(r)
        /\ batches[o].exists /\ ~batches[o].closed
        /\ result.op = "contributeBandwidth" /\ result.id = o
        /\ lastSubmissionTime[ProviderA] > lastDecryptionRequestTime[owner]
        /\ lastDecryptionRequestTime[owner] > 0
        /\ myCallbackRevert(Gateway, r, AuthenticPayload(r)[1], AuthenticPayload(r)[2])
               = NoError
        /\ myCallbackRevert(Gateway, r, abi_encode(1), ForgedProof) = "DecryptionFailed"

\* ------------------------------------------------------------ C29
\* C29: in every state the callback carrying the service's authentic answer
\* for a pending request is accepted from every sender: paused or not,
\* whatever the cooldown records and the window, whoever is a provider,
\* whatever other requests the batch has.  Hence, when the gateway does not
\* put off such a callback for ever, every pending request is eventually
\* processed.
C29_AcceptState ==
    \A r \in RequestIds :
        Pending(r) =>
            /\ \A s \in Callers :
                  myCallbackRevert(s, r, AuthenticPayload(r)[1], AuthenticPayload(r)[2])
                      = NoError
            /\ ENABLED Deliver(r)
C29_ValidCallbackSucceeds ==
    /\ [](C29_AcceptState)
    /\ \A r \in RequestIds : Pending(r) ~> Processed(r)

\* C29 witness: a pending request on a batch whose earlier request is
\* processed, with the contract paused, the owner inside the cooldown
\* window of the request just made and the contributing provider removed:
\* the authentic callback is accepted all the same.
C29_Witness ==
    \E r, q \in RequestIds :
        /\ Pending(r) /\ Processed(q) /\ BatchOf(q) = BatchOf(r)
        /\ paused
        /\ now < lastDecryptionRequestTime[owner] + cooldownSeconds
        /\ lastSubmissionTime[ProviderA] > 0 /\ ~isProvider[ProviderA]
        /\ myCallbackRevert(Gateway, r, AuthenticPayload(r)[1], AuthenticPayload(r)[2])
               = NoError

\* ------------------------------------------------------------ C30
\* C30 as stated: an actor who never had a contribution accepted (the
\* lastSubmissionTime of such an actor is still 0, block times being
\* positive) is never refused a contribution with CooldownActive, and an
\* actor who never had a decryption request accepted is never refused a
\* request with CooldownActive, whatever the block time and the window.
C30_FirstCallNeverCooldown ==
    \A a \in Actors, b \in BatchIds :
        /\ lastSubmissionTime[a] = 0 =>
              contributeBandwidthRevert(a, b) # "CooldownActive"
        /\ lastDecryptionRequestTime[a] = 0 =>
              requestBatchDecryptionRevert(a, b) # "CooldownActive"

\* ------------------------------------------------------------ C31
\* C31 as stated: whatever positive window setCooldownSeconds has accepted
\* and whatever timestamps are stored, the sums of lines 114 and 123 stay in
\* the uint256 range, so contributeBandwidth and requestBatchDecryption never
\* end in an arithmetic abort: they are accepted or revert with NotProvider,
\* NotOwner, Paused, CooldownActive or BatchClosedOrDoesNotExist.
C31_NoArithmeticAbort ==
    \A a \in Actors, b \in BatchIds :
        /\ lastSubmissionTime[a] + cooldownSeconds <= UintMax
        /\ lastDecryptionRequestTime[a] + cooldownSeconds <= UintMax
        /\ contributeBandwidthRevert(a, b) \in
              {NoError, "NotProvider", "Paused", "CooldownActive",
               "BatchClosedOrDoesNotExist"}
        /\ requestBatchDecryptionRevert(a, b) \in
              {NoError, "NotOwner", "Paused", "CooldownActive",
               "BatchClosedOrDoesNotExist"}

\* ------------------------------------------------------------ C32
\* C32 as stated: once the addNode calls of the concurrent clients have all
\* completed, none of them in error, the list stored under "node_keys" holds
\* the id of every node record that was written: no client's
\* read-modify-write of the list drops an id another client added.
C32_NoNodeLostFromIndex ==
    ( /\ \A c \in Clients : pc[c] = "idle"
      /\ \A id \in NodeIds : outcomes[id] # "error" ) =>
        \A id \in NodeIds :
            Len(kvStore.node[id]) > 0 => id \in Ids(ReadKeys(kvStore.node_keys))

====
